---- MODULE Spec2Model ----
(***************************************************************************)
(* Model of the podbriefing repository: the episode repository             *)
(* (src/src/db/crud.py, src/src/db/models.py), the analysis client         *)
(* (src/podcast_analyzer.py), the celery job (src/src/tasks/analyze.py)    *)
(* and the dashboard pipeline and file naming (src/podcast_streamlit.py).  *)
(*                                                                         *)
(* Strings of the program whose characters matter (titles, file names)     *)
(* are sequences of one-character strings; other strings are opaque.       *)
(***************************************************************************)
EXTENDS Integers, Sequences, FiniteSets, TLC

VARIABLES
    \* the episode repository
    episodes,   \* table episodes: row i has primary key i (rows are never deleted)
    analyses,   \* table analyses, in insertion order
    clock,      \* the database's now(), one tick per committed transaction
    call,       \* the repository call that ran last: [op, args...]
    ret,        \* what that call returned
    \* file naming
    entry,        \* the feed entry: [title, published_parsed]
    output_dir,   \* the directory create_filename is given
    today,        \* the local date time.strftime would print
    sanitized,    \* sanitize_filename(entry.title), once computed
    resanitized,  \* sanitize_filename of that result, once computed
    fname,        \* create_filename(entry, output_dir), once computed
    \* the analysis pipeline
    api_key,      \* whether GEMINI_API_KEY is set in the environment
    downloads,    \* the audio files on disk (their paths)
    tmpfiles,     \* the temporary files on disk (their numbers)
    tmpCount,     \* temporary file names handed out so far
    runs,         \* jobs and dashboard calls finished so far
    mode,         \* what is running: "idle", "job" or "dash"
    pc,           \* the statement about to run
    job,          \* the analyze_podcast task: its request and its outcome
    dash,         \* the frame of download_and_analyze_episode and what it showed
    an,           \* the frame of analyze_audio_detailed (with transform_audio)
    failure,      \* the failure met while processing the current episode
    \* the newsletter composer, the briefing run and the concurrent workers
    news,         \* the frame of generate_cohesive_newsletter
    mainf,        \* the frame of main's briefing run
    workers       \* two workers inside create_analysis: position and locals

repoVars == <<episodes, analyses, clock, call, ret>>

fileVars == <<entry, output_dir, today, sanitized, resanitized, fname>>

pipeVars == <<api_key, downloads, tmpfiles, tmpCount, runs, mode, pc, job, dash,
              an, failure>>

extraVars == <<news, mainf, workers>>

vars == <<episodes, analyses, clock, call, ret,
          entry, output_dir, today, sanitized, resanitized, fname,
          api_key, downloads, tmpfiles, tmpCount, runs, mode, pc, job, dash,
          an, failure, news, mainf, workers>>

\* Optional[T]: None is the empty tuple, a present value x is <<x>>
None == <<>>
Some(x) == <<x>>

\* what a call hands back: the value it returns, or the exception it raises
Returned(v) == [raised |-> FALSE, exc |-> "", value |-> v]
Raised(e) == [raised |-> TRUE, exc |-> e, value |-> None]

(***************************************************************************)
(* Bounds of the model.                                                    *)
(***************************************************************************)
\* committed transactions per behaviour
MaxClock == 5

(***************************************************************************)
(* src/src/db/models.py                                                    *)
(***************************************************************************)
PENDING == "pending"
DOWNLOADING == "downloading"
ANALYZING == "analyzing"
COMPLETED == "completed"
FAILED == "failed"

ProcessingStatus == {PENDING, DOWNLOADING, ANALYZING, COMPLETED, FAILED}

BRIEF == "brief"
LEAD == "lead"

AnalysisType == {BRIEF, LEAD}

\* Episode(rss_url, podcast_name, episode_title): the row the INSERT stores at
\* time now; status takes its column default, audio_path and updated_at are NULL.
Episode(id, rss_url, podcast_name, episode_title, now) ==
    [id |-> id, rss_url |-> rss_url, podcast_name |-> podcast_name,
     episode_title |-> episode_title, audio_path |-> None, status |-> PENDING,
     created_at |-> now, updated_at |-> None]

\* Analysis(episode_id, result_text, analysis_type): the row the INSERT stores.
Analysis(id, episode_id, result_text, analysis_type, now) ==
    [id |-> id, episode_id |-> episode_id, analysis_type |-> analysis_type,
     result_text |-> result_text, created_at |-> now]

\* The UPDATE the unit of work emits for a loaded row whose attribute was set:
\* none when the value is the one loaded; otherwise the column is written and
\* updated_at takes its onupdate value now().
UpdateRow(row, field, value, now) ==
    IF row[field] = value
    THEN row
    ELSE [row EXCEPT ![field] = value, !.updated_at = Some(now)]

(***************************************************************************)
(* src/src/db/crud.py, as functions of the tables                          *)
(***************************************************************************)
get_episode(eps, episode_id) ==
    IF episode_id \in 1..Len(eps) THEN Some(eps[episode_id]) ELSE None

\* get_episode_analyses ending in .first() instead of .all()
get_episode_analyses_first(ans, episode_id) ==
    LET rows == SelectSeq(ans, LAMBDA a : a.episode_id = episode_id)
    IN  IF rows = <<>> THEN <<>> ELSE <<Head(rows)>>

get_episode_analyses(ans, episode_id) ==
    SelectSeq(ans, LAMBDA a : a.episode_id = episode_id)

\* {a.analysis_type for a in analyses}
KindsOf(rows) == {rows[i].analysis_type : i \in 1..Len(rows)}

\* update_episode_status with the filter on Episode.id lost: every row is written
StatusUpdatedNoFilter(eps, episode_id, status, now) ==
    [i \in 1..Len(eps) |-> UpdateRow(eps[i], "status", status, now)]

\* episodes after update_episode_status(episode_id, status) at time now
StatusUpdated(eps, episode_id, status, now) ==
    IF get_episode(eps, episode_id) # None
    THEN [eps EXCEPT ![episode_id] = UpdateRow(@, "status", status, now)]
    ELSE eps

\* episodes after update_episode_audio_path(episode_id, audio_path) at time now
AudioPathUpdated(eps, episode_id, audio_path, now) ==
    IF get_episode(eps, episode_id) # None
    THEN [eps EXCEPT ![episode_id] = UpdateRow(@, "audio_path", Some(audio_path), now)]
    ELSE eps

\* the completion test counting the analyses instead of their distinct kinds
AllKindsPresentByCount(rows) ==
    Len(rows) = Cardinality(AnalysisType)

\* the completion test of create_analysis on the re-read analyses
AllKindsPresent(rows) ==
    Cardinality(KindsOf(rows)) = Cardinality(AnalysisType)

(***************************************************************************)
(* Inputs of the repository calls.                                         *)
(***************************************************************************)
RssUrls == {"https://feeds.simplecast.com/82FI35Px"}
PodcastNames == {"Hard Fork"}
EpisodeTitles == {"t1"}
AudioPaths == {"downloads/a.mp3", "downloads/b.mp3"}
ResultTexts == {"TLDR"}

\* the stored ids and one id that is not stored
EpisodeIds == 1..(Len(episodes) + 1)

(***************************************************************************)
(* The repository calls.  Each is one transaction.                         *)
(***************************************************************************)
create_episode(rss_url, podcast_name, episode_title) ==
    /\ clock < MaxClock
    /\ episodes' = Append(episodes,
            Episode(Len(episodes) + 1, rss_url, podcast_name, episode_title, clock))
    /\ clock' = clock + 1
    /\ call' = [op |-> "create_episode"]
    /\ ret' = Returned(Some(episodes'[Len(episodes')]))
    /\ UNCHANGED analyses

update_episode_status(episode_id, status) ==
    /\ clock < MaxClock
    /\ episodes' = StatusUpdated(episodes, episode_id, status, clock)
    /\ clock' = IF get_episode(episodes, episode_id) # None THEN clock + 1 ELSE clock
    /\ call' = [op |-> "update_episode_status", episode_id |-> episode_id,
                value |-> status]
    /\ ret' = Returned(get_episode(episodes', episode_id))
    /\ UNCHANGED analyses

update_episode_audio_path(episode_id, audio_path) ==
    /\ clock < MaxClock
    /\ episodes' = AudioPathUpdated(episodes, episode_id, audio_path, clock)
    /\ clock' = IF get_episode(episodes, episode_id) # None THEN clock + 1 ELSE clock
    /\ call' = [op |-> "update_episode_audio_path", episode_id |-> episode_id,
                value |-> audio_path]
    /\ ret' = Returned(get_episode(episodes', episode_id))
    /\ UNCHANGED analyses

\* The INSERT of an analysis whose episode_id names no episode violates the
\* foreign key: commit raises and nothing is stored.  Otherwise the analysis is
\* committed, the episode's analyses are re-read and, when every kind is among
\* them, update_episode_status commits COMPLETED in a second transaction.
create_analysis(episode_id, result_text, analysis_type) ==
    /\ clock + 1 < MaxClock
    /\ call' = [op |-> "create_analysis", episode_id |-> episode_id,
                value |-> analysis_type]
    /\ IF get_episode(episodes, episode_id) = None
       THEN /\ ret' = Raised("IntegrityError")
            /\ UNCHANGED <<episodes, analyses, clock>>
       ELSE /\ analyses' = Append(analyses,
                    Analysis(Len(analyses) + 1, episode_id, result_text,
                             analysis_type, clock))
            /\ ret' = Returned(Some(analyses'[Len(analyses')]))
            /\ IF AllKindsPresent(get_episode_analyses(analyses', episode_id))
               THEN /\ episodes' = StatusUpdated(episodes, episode_id, COMPLETED,
                                                 clock + 1)
                    /\ clock' = clock + 2
               ELSE /\ clock' = clock + 1
                    /\ UNCHANGED episodes

RepoInit ==
    /\ episodes = <<>>
    /\ analyses = <<>>
    /\ clock = 0
    /\ call = [op |-> "none"]
    /\ ret = Returned(None)

CreateEpisode ==
    /\ \E u \in RssUrls, n \in PodcastNames, t \in EpisodeTitles :
            create_episode(u, n, t)
    /\ UNCHANGED <<fileVars, pipeVars, extraVars>>

UpdateEpisodeStatus ==
    /\ \E id \in EpisodeIds, s \in ProcessingStatus :
            update_episode_status(id, s)
    /\ UNCHANGED <<fileVars, pipeVars, extraVars>>

UpdateEpisodeAudioPath ==
    /\ \E id \in EpisodeIds, p \in AudioPaths :
            update_episode_audio_path(id, p)
    /\ UNCHANGED <<fileVars, pipeVars, extraVars>>

CreateAnalysis ==
    /\ \E id \in EpisodeIds, x \in ResultTexts, k \in AnalysisType :
            create_analysis(id, x, k)
    /\ UNCHANGED <<fileVars, pipeVars, extraVars>>

\* the file naming part at rest
FileIdle ==
    /\ entry = [title |-> <<>>, published_parsed |-> None]
    /\ output_dir = <<>>
    /\ today = <<>>
    /\ sanitized = None
    /\ resanitized = None
    /\ fname = None

\* the frames of the pipeline when nothing runs
NoJob ==
    [audio_path |-> <<>>, retries |-> 0, executions |-> 0, state |-> "PENDING",
     result |-> None, exc |-> None]

NoDash ==
    [feed |-> [title |-> <<>>, entries |-> <<>>], i |-> 0, filename |-> <<>>,
     shown |-> <<>>, exc |-> None, returned |-> FALSE, result |-> None]

NoAn ==
    [caller |-> "", audio_path |-> <<>>, tmp |-> 0, transformed_audio_path |-> None,
     created |-> {}, oracle |-> "none", exc |-> None, result |-> None]

\* the pipeline at rest
PipeIdle ==
    /\ api_key = TRUE
    /\ downloads = {}
    /\ tmpfiles = {}
    /\ tmpCount = 0
    /\ runs = 0
    /\ mode = "idle"
    /\ pc = "idle"
    /\ job = NoJob
    /\ dash = NoDash
    /\ an = NoAn
    /\ failure = "none"

\* the frames of the composer and of the briefing run when nothing runs
NoNews ==
    [called |-> FALSE, podcast_analyses |-> <<>>, combined_input |-> None,
     result |-> None]

NoMain ==
    [selected_podcasts |-> <<>>, idx |-> 0, detailed_analyses |-> <<>>,
     succeeded |-> <<>>, shown |-> <<>>]

\* the composer, the briefing run and the workers at rest
ExtraIdle ==
    /\ news = NoNews
    /\ mainf = NoMain
    /\ workers = <<>>

InitRepo == RepoInit /\ FileIdle /\ PipeIdle /\ ExtraIdle

NextRepo ==
    \/ CreateEpisode
    \/ UpdateEpisodeStatus
    \/ UpdateEpisodeAudioPath
    \/ CreateAnalysis

SpecRepo == InitRepo /\ [][NextRepo]_vars

(***************************************************************************)
(* Claims about the repository, checked under SpecRepo.                    *)
(***************************************************************************)
Stored(episode_id) == episode_id \in 1..Len(episodes)

\* the kinds of the analyses stored for an episode
StoredKinds(ans, episode_id) ==
    {ans[i].analysis_type : i \in {j \in 1..Len(ans) : ans[j].episode_id = episode_id}}

\* C1: a create_analysis call on a stored episode after which the episode's
\* analyses cover BRIEF and LEAD leaves its status COMPLETED; a call after which
\* a kind is still missing (repeated kinds included) leaves its status as it
\* was before the call.
C1_CreateAnalysisCompletion ==
    [][(call'.op = "create_analysis" /\ Stored(call'.episode_id)) =>
         LET e == call'.episode_id IN
           /\ Len(analyses') = Len(analyses) + 1
           /\ IF StoredKinds(analyses', e) = {BRIEF, LEAD}
              THEN episodes'[e].status = COMPLETED
              ELSE episodes'[e].status = episodes[e].status]_vars

\* C1 witness: after two analyses of one kind, a create_analysis call has just
\* stored the first analysis of the other kind and the episode is COMPLETED.
C1_Witness ==
    /\ call.op = "create_analysis"
    /\ Stored(call.episode_id)
    /\ LET a == get_episode_analyses(analyses, call.episode_id) IN
         /\ Len(a) = 3
         /\ a[1].analysis_type = a[2].analysis_type
         /\ a[3].analysis_type # a[1].analysis_type
         /\ a[3].id = Len(analyses)
    /\ episodes[call.episode_id].status = COMPLETED

\* position of a status along PENDING -> DOWNLOADING -> ANALYZING -> COMPLETED
Rank(s) ==
    CASE s = PENDING -> 0
      [] s = DOWNLOADING -> 1
      [] s = ANALYZING -> 2
      [] s = COMPLETED -> 3
      [] OTHER -> 4

\* a step the state machine of the episode status allows
Forward(s, t) ==
    \/ s = t
    \/ t = FAILED
    \/ s # FAILED /\ Rank(s) < Rank(t)

\* C2: over any sequence of repository operations an episode's status only
\* moves forward along PENDING -> DOWNLOADING -> ANALYZING -> COMPLETED or jumps
\* to FAILED; it never moves backward and never leaves COMPLETED or FAILED for
\* an earlier state.
C2_StatusOnlyForward ==
    [][\A i \in 1..Len(episodes) :
          Forward(episodes[i].status, episodes'[i].status)]_vars

\* C3: an episode whose status is COMPLETED has a stored analysis of every
\* defined kind.
C3_CompletedHasAllKinds ==
    \A i \in 1..Len(episodes) :
        episodes[i].status = COMPLETED => StoredKinds(analyses, i) = AnalysisType

IsUpdateCall(c) ==
    c.op \in {"update_episode_status", "update_episode_audio_path"}

NamedField(c) ==
    IF c.op = "update_episode_status" THEN "status" ELSE "audio_path"

NamedValue(c) ==
    IF c.op = "update_episode_status" THEN c.value ELSE Some(c.value)

\* the fields of an episode row other than f and those in also
SameBut(old, new, fields) ==
    \A f \in (DOMAIN old) \ fields : new[f] = old[f]

\* C4 as claimed: update_episode_status and update_episode_audio_path with an
\* id that is not stored return None and write nothing; with a stored id they
\* change only the named field of that one episode and return that episode.
C4_UpdateChangesOnlyNamedField ==
    [][IsUpdateCall(call') =>
         LET e == call'.episode_id IN
           /\ analyses' = analyses
           /\ ~ret'.raised
           /\ IF ~Stored(e)
              THEN ret'.value = None /\ episodes' = episodes
              ELSE /\ Len(episodes') = Len(episodes)
                   /\ \A i \in 1..Len(episodes) : i # e => episodes'[i] = episodes[i]
                   /\ episodes'[e][NamedField(call')] = NamedValue(call')
                   /\ SameBut(episodes[e], episodes'[e], {NamedField(call')})
                   /\ ret'.value = Some(episodes'[e])]_vars

\* C4 as amended: with an id that is not stored the two calls return None and
\* write nothing; with a stored id they set the named field of that one
\* episode, set its updated_at to the time of the transaction when the value
\* differs from the stored one (and leave updated_at alone when it does not),
\* change nothing else, and return that episode.
C4_UpdateChangesNamedFieldAndUpdatedAt ==
    [][IsUpdateCall(call') =>
         LET e == call'.episode_id IN
           /\ analyses' = analyses
           /\ ~ret'.raised
           /\ IF ~Stored(e)
              THEN ret'.value = None /\ episodes' = episodes
              ELSE /\ Len(episodes') = Len(episodes)
                   /\ \A i \in 1..Len(episodes) : i # e => episodes'[i] = episodes[i]
                   /\ episodes'[e][NamedField(call')] = NamedValue(call')
                   /\ SameBut(episodes[e], episodes'[e],
                              {NamedField(call'), "updated_at"})
                   /\ episodes'[e].updated_at =
                        IF episodes[e][NamedField(call')] = NamedValue(call')
                        THEN episodes[e].updated_at
                        ELSE Some(clock)
                   /\ ret'.value = Some(episodes'[e])]_vars

\* C4 witness: an update of a stored episode has changed its field beside a
\* second episode, and the row carries the time of that transaction.
C4_Witness ==
    /\ IsUpdateCall(call)
    /\ Stored(call.episode_id)
    /\ Len(episodes) >= 2
    /\ episodes[call.episode_id][NamedField(call)] = NamedValue(call)
    /\ episodes[call.episode_id].updated_at = Some(clock - 1)
    /\ ret.value = Some(episodes[call.episode_id])

(***************************************************************************)
(* File naming: src/podcast_streamlit.py, sanitize_filename and            *)
(* create_filename.  A string is the sequence of its characters.           *)
(***************************************************************************)
\* invalid_chars = '<>:"/\\|?*'
invalid_chars == <<"<", ">", ":", "\"", "/", "\\", "|", "?", "*">>

\* str.replace(old, new) for one-character old and new
Replace(s, old, new) ==
    [i \in 1..Len(s) |-> IF s[i] = old THEN new ELSE s[i]]

\* for char in invalid_chars: filename = filename.replace(char, '_')
RECURSIVE ReplaceEach(_, _)
ReplaceEach(s, chars) ==
    IF chars = <<>>
    THEN s
    ELSE ReplaceEach(Replace(s, Head(chars), "_"), Tail(chars))

RECURSIVE lstrip(_, _)
lstrip(s, chars) ==
    IF s # <<>> /\ Head(s) \in chars THEN lstrip(Tail(s), chars) ELSE s

RECURSIVE rstrip(_, _)
rstrip(s, chars) ==
    IF s # <<>> /\ s[Len(s)] \in chars
    THEN rstrip(SubSeq(s, 1, Len(s) - 1), chars)
    ELSE s

\* a strip that drops at most one character at each end
StripOnce(s, chars) ==
    LET l == IF s # <<>> /\ Head(s) \in chars THEN Tail(s) ELSE s
    IN  IF l # <<>> /\ l[Len(l)] \in chars THEN SubSeq(l, 1, Len(l) - 1) ELSE l

\* str.strip(chars)
strip(s, chars) ==
    rstrip(lstrip(s, chars), chars)

sanitize_filename(filename) ==
    strip(ReplaceEach(filename, invalid_chars), {".", " "})

Digit(d) == <<"0", "1", "2", "3", "4", "5", "6", "7", "8", "9">>[d + 1]

\* str(n) for n >= 0
RECURSIVE Decimal(_)
Decimal(n) ==
    IF n < 10 THEN <<Digit(n)>> ELSE Decimal(n \div 10) \o <<Digit(n % 10)>>

\* format(n, "d"): the number without the zero padding
FormatD(n) ==
    Decimal(n)

\* format(n, "02d") for n >= 0
Format02d(n) ==
    IF n < 10 THEN <<"0">> \o Decimal(n) ELSE Decimal(n)

\* the base file name is cut to this many characters
MaxBaseLen == 200

\* posixpath.join(a, b)
os_path_join(a, b) ==
    IF b # <<>> /\ Head(b) = "/"
    THEN b
    ELSE IF a = <<>> \/ a[Len(a)] = "/"
         THEN a \o b
         ELSE a \o <<"/">> \o b

\* entry.published_parsed is None when the feed gave no date: reading tm_year
\* raises AttributeError and the date is today's.
create_filename(e, dir, now) ==
    LET date == IF e.published_parsed # None
                THEN LET d == e.published_parsed[1]
                     IN  Decimal(d.tm_year) \o <<"-">> \o Format02d(d.tm_mon)
                           \o <<"-">> \o Format02d(d.tm_mday)
                ELSE now
        title == sanitize_filename(e.title)
        base_filename == date \o <<"_">> \o title
        cut == IF Len(base_filename) > MaxBaseLen
               THEN SubSeq(base_filename, 1, MaxBaseLen)
               ELSE base_filename
    IN  os_path_join(dir, cut \o <<".", "m", "p", "3">>)

(***************************************************************************)
(* Inputs of the file naming.                                              *)
(***************************************************************************)
\* longest title drawn character by character
MaxTitleLen == 3

\* the characters titles are drawn from: every invalid character, the two
\* stripped ones, the replacement and a letter
Alphabet == {invalid_chars[i] : i \in 1..Len(invalid_chars)} \cup {".", " ", "_", "a"}

Strings(n) == UNION {[1..k -> Alphabet] : k \in 0..n}

\* n copies of the character c
Rep(c, n) == [i \in 1..n |-> c]

Date(y, m, d) == Some([tm_year |-> y, tm_mon |-> m, tm_mday |-> d])

EpisodeABTest == <<"E", "p", "i", "s", "o", "d", "e", ":", " ", "A", "/", "B", " ", "T", "e", "s", "t", "?">>

\* titles longer than the cut: plain, with a space or a dot falling on the cut,
\* and with stripped characters at both ends
LongTitles ==
    { Rep("a", 250),
      Rep("a", 188) \o <<" ">> \o Rep("b", 20),
      Rep("a", 188) \o <<".">> \o Rep("b", 20),
      <<" ", ".">> \o Rep("a", 189) \o <<"?", " ">>,
      Rep("a", 189),
      Rep("a", 190) }

Entries ==
    {[title |-> t, published_parsed |-> Date(2024, 3, 5)] : t \in Strings(MaxTitleLen)}
    \cup {[title |-> t, published_parsed |-> p] :
            t \in {EpisodeABTest} \cup LongTitles,
            p \in {Date(2024, 3, 5), Date(2024, 11, 23), Date(1999, 12, 1), None}}

OutputDirs == {<<"d", "o", "w", "n", "l", "o", "a", "d", "s", "/", "H", "a", "r", "d", " ", "F", "o", "r", "k">>, <<"o", "u", "t", "/">>}

Todays == {<<"2", "0", "2", "6", "-", "1", "1", "-", "0", "1">>}

FileInit ==
    /\ entry \in Entries
    /\ output_dir \in OutputDirs
    /\ today \in Todays
    /\ sanitized = None
    /\ resanitized = None
    /\ fname = None

Sanitize ==
    /\ sanitized = None
    /\ sanitized' = Some(sanitize_filename(entry.title))
    /\ UNCHANGED <<entry, output_dir, today, resanitized, fname>>
    /\ UNCHANGED <<repoVars, pipeVars, extraVars>>

SanitizeAgain ==
    /\ sanitized # None
    /\ resanitized = None
    /\ resanitized' = Some(sanitize_filename(sanitized[1]))
    /\ UNCHANGED <<entry, output_dir, today, sanitized, fname>>
    /\ UNCHANGED <<repoVars, pipeVars, extraVars>>

CreateFilename ==
    /\ fname = None
    /\ fname' = Some(create_filename(entry, output_dir, today))
    /\ UNCHANGED <<entry, output_dir, today, sanitized, resanitized>>
    /\ UNCHANGED <<repoVars, pipeVars, extraVars>>

\* the repository at rest
RepoIdle ==
    /\ episodes = <<>>
    /\ analyses = <<>>
    /\ clock = 0
    /\ call = [op |-> "none"]
    /\ ret = Returned(None)

InitFile == FileInit /\ RepoIdle /\ PipeIdle /\ ExtraIdle

NextFile ==
    \/ Sanitize
    \/ SanitizeAgain
    \/ CreateFilename

SpecFile == InitFile /\ [][NextFile]_vars

(***************************************************************************)
(* Claims about the file naming, checked under SpecFile.                   *)
(***************************************************************************)
\* the characters a file name must not hold
Forbidden == {"<", ">", ":", "\"", "/", "\\", "|", "?", "*"}

\* C9: sanitize_filename(sanitize_filename(s)) = sanitize_filename(s), and
\* sanitize_filename(s) contains none of the characters < > : " / \ | ? *.
C9_SanitizeIdempotent ==
    /\ sanitized # None =>
          \A i \in 1..Len(sanitized[1]) : sanitized[1][i] \notin Forbidden
    /\ resanitized # None => resanitized = sanitized

\* C9 witness: a title with a forbidden character and a dot or space to strip
\* has been sanitized twice.
C9_Witness ==
    /\ resanitized # None
    /\ \E i \in 1..Len(entry.title) : entry.title[i] \in Forbidden
    /\ Len(sanitized[1]) < Len(entry.title)
    /\ sanitized[1] # <<>>

\* the title with each forbidden character replaced by _
Substituted(t) ==
    [i \in 1..Len(t) |-> IF t[i] \in Forbidden THEN "_" ELSE t[i]]

\* s without its leading and trailing dots and spaces
Trimmed(s) ==
    LET keep == {i \in 1..Len(s) : s[i] \notin {".", " "}}
    IN  IF keep = {}
        THEN <<>>
        ELSE SubSeq(s, CHOOSE i \in keep : \A j \in keep : i <= j,
                       CHOOSE i \in keep : \A j \in keep : j <= i)

DigitValue(c) ==
    CASE c = "0" -> 0 [] c = "1" -> 1 [] c = "2" -> 2 [] c = "3" -> 3
      [] c = "4" -> 4 [] c = "5" -> 5 [] c = "6" -> 6 [] c = "7" -> 7
      [] c = "8" -> 8 [] c = "9" -> 9 [] OTHER -> 100000

\* s is YYYY-MM-DD for the date d, month and day zero-padded
IsIsoDate(s, d) ==
    /\ Len(s) = 10
    /\ s[5] = "-" /\ s[8] = "-"
    /\ 1000 * DigitValue(s[1]) + 100 * DigitValue(s[2]) + 10 * DigitValue(s[3])
         + DigitValue(s[4]) = d.tm_year
    /\ 10 * DigitValue(s[6]) + DigitValue(s[7]) = d.tm_mon
    /\ 10 * DigitValue(s[9]) + DigitValue(s[10]) = d.tm_mday

\* path is the file called name inside the directory dir
InsideDir(path, dir, name) ==
    path = (IF dir[Len(dir)] = "/" THEN dir ELSE dir \o <<"/">>) \o name

\* the file name of a path inside dir
NameIn(path, dir) ==
    SubSeq(path, Len(dir) + (IF dir[Len(dir)] = "/" THEN 1 ELSE 2), Len(path))

ABTestFileName == <<"2", "0", "2", "4", "-", "0", "3", "-", "0", "5", "_", "E", "p", "i", "s", "o", "d", "e", "_", " ", "A", "_", "B", " ", "T", "e", "s", "t", "_", ".", "m", "p", "3">>

IsABTest(e) ==
    e.title = EpisodeABTest /\ e.published_parsed = Date(2024, 3, 5)

\* C10 as claimed: for an entry with a publish date and a title the file is
\* named <YYYY-MM-DD>_<title with each forbidden character replaced by _>.mp3
\* inside the output directory; "Episode: A/B Test?" of 2024-03-05 yields
\* 2024-03-05_Episode_ A_B Test_.mp3.
C10_NameIsDateAndSubstitutedTitle ==
    (fname # None /\ entry.published_parsed # None) =>
        LET name == NameIn(fname[1], output_dir)
            n == Len(name)
        IN  /\ InsideDir(fname[1], output_dir, name)
            /\ n = 11 + Len(entry.title) + 4
            /\ IsIsoDate(SubSeq(name, 1, 10), entry.published_parsed[1])
            /\ name[11] = "_"
            /\ SubSeq(name, 12, n - 4) = Substituted(entry.title)
            /\ SubSeq(name, n - 3, n) = <<".", "m", "p", "3">>
            /\ IsABTest(entry) => name = ABTestFileName

\* C10 as amended: the file is named <YYYY-MM-DD>_<T>, cut to its first 200
\* characters, followed by .mp3, inside the output directory, where T is the
\* title with each forbidden character replaced by _ and then without its
\* leading and trailing dots and spaces; "Episode: A/B Test?" of 2024-03-05
\* yields 2024-03-05_Episode_ A_B Test_.mp3.
C10_NameIsDateAndSanitizedTitleCut ==
    (fname # None /\ entry.published_parsed # None) =>
        LET name == NameIn(fname[1], output_dir)
            n == Len(name)
            t == Trimmed(Substituted(entry.title))
            full == 11 + Len(t)
        IN  /\ InsideDir(fname[1], output_dir, name)
            /\ n = (IF full > 200 THEN 200 ELSE full) + 4
            /\ IsIsoDate(SubSeq(name, 1, 10), entry.published_parsed[1])
            /\ name[11] = "_"
            /\ \A i \in 12..(n - 4) : name[i] = t[i - 11]
            /\ SubSeq(name, n - 3, n) = <<".", "m", "p", "3">>
            /\ IsABTest(entry) => name = ABTestFileName

\* C10 witness: the file name of "Episode: A/B Test?" of 2024-03-05 has been
\* created.
C10_Witness ==
    /\ IsABTest(entry)
    /\ fname # None
    /\ InsideDir(fname[1], output_dir, ABTestFileName)

\* the name create_filename produced, without directory and without .mp3
BaseName ==
    LET name == NameIn(fname[1], output_dir)
    IN  SubSeq(name, 1, Len(name) - 4)

\* C11: for a title of any length the name create_filename produces, without
\* its directory and without the appended .mp3, is at most 200 characters long
\* and has no leading or trailing dot or space.
C11_BaseNameShortAndTrimmed ==
    fname # None =>
        /\ Len(BaseName) <= 200
        /\ BaseName # <<>>
        /\ BaseName[1] \notin {".", " "}
        /\ BaseName[Len(BaseName)] \notin {".", " "}

(***************************************************************************)
(* The analysis client: src/podcast_analyzer.py.                           *)
(* transform_audio and analyze_audio_detailed run statement by statement;  *)
(* what the codec library, the file system and the oracle answer is the    *)
(* environment's choice.                                                   *)
(***************************************************************************)
\* str.startswith(prefix)
StartsWith(s, prefix) ==
    Len(s) >= Len(prefix) /\ SubSeq(s, 1, Len(prefix)) = prefix

\* sub in s
Contains(sub, s) ==
    \E i \in 1..(Len(s) - Len(sub) + 1) : SubSeq(s, i, i + Len(sub) - 1) = sub

\* what the oracle answers when the call succeeds
OracleTexts == {<<"T", "L", "D", "R", ":", " ", "x">>, <<"E", "r", "r", "o", "r", "s", " ", "a", "r", "e">>, <<>>}

\* str(e) of the oracle's exceptions
OracleErrors == {<<"t", "i", "m", "e", "o", "u", "t">>, <<"r", "e", "s", "e", "t">>}

\* str(e) of the codec library's exceptions
CodecErrors == {<<"f", "f", "m", "p", "e", "g">>}

MsgApiKey == <<"G", "E", "M", "I", "N", "I", "_", "A", "P", "I", "_", "K", "E", "Y", " ", "n", "o", "t", " ", "f", "o", "u", "n", "d", " ", "i", "n", " ", "e", "n", "v", "i", "r", "o", "n", "m", "e", "n", "t", " ", "v", "a", "r", "i", "a", "b", "l", "e", "s">>

\* analyze_audio_detailed is entered from caller with audio_path
AnEnter(caller, audio_path) ==
    [NoAn EXCEPT !.caller = caller, !.audio_path = audio_path]

\* raise inside the try of analyze_audio_detailed: control goes to its except
AnRaise(msg, why) ==
    /\ an' = [an EXCEPT !.exc = Some(msg)]
    /\ failure' = why
    /\ pc' = "an_except"

\* transform_audio: if not os.path.exists(audio_path): raise FileNotFoundError
TrExists ==
    /\ pc = "tr_exists"
    /\ IF an.audio_path \notin downloads
       THEN AnRaise(<<"A", "u", "d", "i", "o", " ", "f", "i", "l", "e", " ", "n", "o", "t", " ", "f", "o", "u", "n", "d", ":", " ">> \o an.audio_path, "missing_file")
       ELSE pc' = "tr_load" /\ UNCHANGED <<an, failure>>
    /\ UNCHANGED <<api_key, downloads, tmpfiles, tmpCount, runs, mode, job, dash>>

\* audio = AudioSegment.from_file(audio_path)
TrLoad ==
    /\ pc = "tr_load"
    /\ \/ pc' = "tr_process" /\ UNCHANGED <<an, failure>>
       \/ \E e \in CodecErrors : AnRaise(<<"F", "a", "i", "l", "e", "d", " ", "t", "o", " ", "l", "o", "a", "d", " ", "a", "u", "d", "i", "o", " ", "f", "i", "l", "e", ":", " ">> \o e, "transcode")
    /\ UNCHANGED <<api_key, downloads, tmpfiles, tmpCount, runs, mode, job, dash>>

\* audio.set_channels(1); audio.set_frame_rate(16000)
TrProcess ==
    /\ pc = "tr_process"
    /\ \/ pc' = "tr_mktemp" /\ UNCHANGED <<an, failure>>
       \/ \E e \in CodecErrors : AnRaise(<<"F", "a", "i", "l", "e", "d", " ", "t", "o", " ", "p", "r", "o", "c", "e", "s", "s", " ", "a", "u", "d", "i", "o", ":", " ">> \o e, "transcode")
    /\ UNCHANGED <<api_key, downloads, tmpfiles, tmpCount, runs, mode, job, dash>>

\* with tempfile.NamedTemporaryFile(suffix='.mp3', delete=False) as tmp_file:
\* the file exists from here on, under a name not handed out before
TrMktemp ==
    /\ pc = "tr_mktemp"
    /\ tmpCount' = tmpCount + 1
    /\ tmpfiles' = tmpfiles \cup {tmpCount'}
    /\ an' = [an EXCEPT !.tmp = tmpCount', !.created = @ \cup {tmpCount'}]
    /\ pc' = "tr_export"
    /\ UNCHANGED <<api_key, downloads, runs, mode, job, dash, failure>>

\* audio.export(tmp_file.name, ...); return tmp_file.name
TrExport ==
    /\ pc = "tr_export"
    /\ \/ /\ an' = [an EXCEPT !.transformed_audio_path = Some(an.tmp)]
          /\ pc' = "an_read"
          /\ UNCHANGED failure
       \/ \E e \in CodecErrors : AnRaise(<<"F", "a", "i", "l", "e", "d", " ", "t", "o", " ", "e", "x", "p", "o", "r", "t", " ", "c", "o", "m", "p", "r", "e", "s", "s", "e", "d", " ", "a", "u", "d", "i", "o", ":", " ">> \o e, "transcode")
    /\ UNCHANGED <<api_key, downloads, tmpfiles, tmpCount, runs, mode, job, dash>>

\* audio_data = Path(transformed_audio_path).read_bytes()
AnRead ==
    /\ pc = "an_read"
    /\ pc' = "an_oracle"
    /\ UNCHANGED <<api_key, downloads, tmpfiles, tmpCount, runs, mode, job, dash, an,
                   failure>>

\* response = self.model.generate_content([...]); return response.text
AnOracle ==
    /\ pc = "an_oracle"
    /\ \/ \E t \in OracleTexts :
            /\ an' = [an EXCEPT !.oracle = "ok", !.result = Some(t)]
            /\ pc' = "an_finally"
            /\ UNCHANGED failure
       \/ \E e \in OracleErrors :
            /\ an' = [an EXCEPT !.oracle = "failed", !.exc = Some(e)]
            /\ failure' = "oracle"
            /\ pc' = "an_except"
    /\ UNCHANGED <<api_key, downloads, tmpfiles, tmpCount, runs, mode, job, dash>>

\* the text the except clause returns for the exception message msg
ErrorText(msg) ==
    <<"E", "r", "r", "o", "r", " ", "i", "n", " ", "d", "e", "t", "a", "i", "l", "e", "d", " ", "a", "n", "a", "l", "y", "s", "i", "s", ":", " ">> \o msg

\* except Exception as e: return f"Error in detailed analysis: {str(e)}"
AnExcept ==
    /\ pc = "an_except"
    /\ an' = [an EXCEPT !.result = Some(ErrorText(an.exc[1]))]
    /\ pc' = "an_finally"
    /\ UNCHANGED <<api_key, downloads, tmpfiles, tmpCount, runs, mode, job, dash,
                   failure>>

\* an analyze_audio_detailed whose cleanup is missing
NoUnlink(files, path) ==
    files

\* finally: if transformed_audio_path and os.path.exists(...): os.unlink(...)
Unlinked(files, path) ==
    IF path # None /\ path[1] \in files THEN files \ {path[1]} ELSE files

AnFinally ==
    /\ pc = "an_finally"
    /\ tmpfiles' = Unlinked(tmpfiles, an.transformed_audio_path)
    /\ pc' = "an_return"
    /\ UNCHANGED <<api_key, downloads, tmpCount, runs, mode, job, dash, an, failure>>

(***************************************************************************)
(* The celery task analyze_podcast: src/src/tasks/analyze.py.              *)
(***************************************************************************)
\* @shared_task(bind=True, max_retries=3)
max_retries == 3

\* jobs and dashboard calls per behaviour
MaxRuns == 2

\* an audio file that is on disk from the start, and one that never is
StoredAudio == <<"d", "o", "w", "n", "l", "o", "a", "d", "s", "/", "e", "1", ".", "m", "p", "3">>
MissingAudio == <<"d", "o", "w", "n", "l", "o", "a", "d", "s", "/", "e", "2", ".", "m", "p", "3">>

JobPaths == {StoredAudio, MissingAudio}

\* analyze_podcast.delay(audio_path): a worker starts the task
JobSubmit ==
    /\ mode = "idle"
    /\ runs < MaxRuns
    /\ \E path \in JobPaths :
          job' = [NoJob EXCEPT !.audio_path = path, !.state = "STARTED",
                               !.executions = 1]
    /\ mode' = "job"
    /\ pc' = "job_exists"
    /\ failure' = "none"
    /\ UNCHANGED <<api_key, downloads, tmpfiles, tmpCount, runs, dash, an>>

\* if not os.path.exists(audio_path): return error_msg
JobCheckFile ==
    /\ pc = "job_exists"
    /\ IF job.audio_path \notin downloads
       THEN /\ job' = [job EXCEPT !.state = "SUCCESS",
                          !.result = Some(<<"A", "u", "d", "i", "o", " ", "f", "i", "l", "e", " ", "n", "o", "t", " ", "f", "o", "u", "n", "d", ":", " ">> \o job.audio_path)]
            /\ failure' = "missing_file"
            /\ pc' = "job_done"
       ELSE /\ pc' = "job_construct"
            /\ UNCHANGED <<job, failure>>
    /\ UNCHANGED <<api_key, downloads, tmpfiles, tmpCount, runs, mode, dash, an>>

\* analyzer = PodcastAnalyzer(): raises ValueError without GEMINI_API_KEY;
\* result = analyzer.analyze_audio_detailed(audio_path)
JobConstruct ==
    /\ pc = "job_construct"
    /\ IF api_key
       THEN /\ an' = AnEnter("job", job.audio_path)
            /\ pc' = "tr_exists"
            /\ UNCHANGED <<job, failure>>
       ELSE /\ job' = [job EXCEPT !.exc = Some(MsgApiKey)]
            /\ failure' = "config"
            /\ pc' = "job_except"
            /\ UNCHANGED an
    /\ UNCHANGED <<api_key, downloads, tmpfiles, tmpCount, runs, mode, dash>>

\* return result
JobReturn ==
    /\ pc = "an_return"
    /\ an.caller = "job"
    /\ job' = [job EXCEPT !.state = "SUCCESS", !.result = an.result]
    /\ pc' = "job_done"
    /\ UNCHANGED <<api_key, downloads, tmpfiles, tmpCount, runs, mode, dash, an,
                   failure>>

\* except Exception as e: raise self.retry(exc=e).  Task.retry re-queues the
\* task with request.retries + 1 unless that exceeds max_retries, and then it
\* raises exc: the task ends in FAILURE.  A retry runs the task from its start.
JobExcept ==
    /\ pc = "job_except"
    /\ IF job.retries + 1 > max_retries
       THEN /\ job' = [job EXCEPT !.state = "FAILURE"]
            /\ pc' = "job_done"
       ELSE /\ job' = [job EXCEPT !.state = "RETRY", !.retries = @ + 1,
                                  !.executions = @ + 1, !.exc = None]
            /\ pc' = "job_exists"
    /\ UNCHANGED <<api_key, downloads, tmpfiles, tmpCount, runs, mode, dash, an,
                   failure>>

\* the task's result is stored; the worker is free again
JobFinish ==
    /\ pc = "job_done"
    /\ mode' = "idle"
    /\ pc' = "idle"
    /\ runs' = runs + 1
    /\ job' = NoJob
    /\ an' = NoAn
    /\ failure' = "none"
    /\ UNCHANGED <<api_key, downloads, tmpfiles, tmpCount, dash>>

(***************************************************************************)
(* The dashboard's download_and_analyze_episode: src/podcast_streamlit.py. *)
(***************************************************************************)
AudioMpeg == <<"a", "u", "d", "i", "o", "/", "m", "p", "e", "g">>
ImageJpeg == <<"i", "m", "a", "g", "e", "/", "j", "p", "e", "g">>

FeedEntry(types) ==
    [title |-> <<"E", "p", ".", " ", "1", "?">>, published_parsed |-> Date(2024, 3, 5), enclosures |-> types]

\* feedparser.parse(rss_url): no entry, an entry with an audio enclosure (first
\* or after an image), an entry with an image only, an entry without enclosure
FeedsOf(title) ==
    {[title |-> title, entries |-> es] :
        es \in { <<>>,
                 <<FeedEntry(<<AudioMpeg>>)>>,
                 <<FeedEntry(<<ImageJpeg, AudioMpeg>>)>>,
                 <<FeedEntry(<<ImageJpeg>>)>>,
                 <<FeedEntry(<<>>)>> }}

Feeds == FeedsOf(<<"H", "a", "r", "d", " ", "F", "o", "r", "k">>)

\* str(e) of the exceptions of requests
DownloadErrors == {<<"5", "0", "3">>}

\* st.error(msg); return None
DashFail(msg, why) ==
    /\ dash' = [dash EXCEPT !.shown = Append(@, msg), !.returned = TRUE,
                            !.result = None]
    /\ failure' = why
    /\ pc' = "dash_done"

\* download_and_analyze_episode(rss_url) is called
DashStart ==
    /\ mode = "idle"
    /\ runs < MaxRuns
    /\ \E f \in Feeds : dash' = [NoDash EXCEPT !.feed = f]
    /\ mode' = "dash"
    /\ pc' = "dash_parse"
    /\ failure' = "none"
    /\ UNCHANGED <<api_key, downloads, tmpfiles, tmpCount, runs, job, an>>

\* if not feed.entries: st.error("No episodes found in the feed."); return None
DashParse ==
    /\ pc = "dash_parse"
    /\ IF dash.feed.entries = <<>>
       THEN DashFail(<<"N", "o", " ", "e", "p", "i", "s", "o", "d", "e", "s", " ", "f", "o", "u", "n", "d", " ", "i", "n", " ", "t", "h", "e", " ", "f", "e", "e", "d", ".">>, "empty_feed")
       ELSE /\ dash' = [dash EXCEPT !.i = 1]
            /\ pc' = "dash_enclosure"
            /\ UNCHANGED failure
    /\ UNCHANGED <<api_key, downloads, tmpfiles, tmpCount, runs, mode, job, an>>

\* podcast_dir = os.path.join(output_dir, sanitize_filename(feed.feed.title))
podcast_dir(feed) ==
    os_path_join(<<"d", "o", "w", "n", "l", "o", "a", "d", "s">>, sanitize_filename(feed.title))

\* for enclosure in entry.enclosures: if 'audio' in enclosure.type: ...
\* When the loop ends without an audio enclosure the function ends without a
\* return statement: it returns None and has shown nothing.
DashEnclosure ==
    /\ pc = "dash_enclosure"
    /\ LET e == dash.feed.entries[1] IN
         IF dash.i > Len(e.enclosures)
         THEN /\ dash' = [dash EXCEPT !.returned = TRUE, !.result = None]
              /\ failure' = "no_audio"
              /\ pc' = "dash_done"
         ELSE IF Contains(<<"a", "u", "d", "i", "o">>, e.enclosures[dash.i])
         THEN /\ dash' = [dash EXCEPT !.filename =
                              create_filename(e, podcast_dir(dash.feed), <<"2", "0", "2", "6", "-", "1", "1", "-", "0", "1">>)]
              /\ pc' = IF dash'.filename \in downloads
                       THEN "dash_construct"
                       ELSE "dash_download"
              /\ UNCHANGED failure
         ELSE /\ dash' = [dash EXCEPT !.i = @ + 1]
              /\ UNCHANGED <<pc, failure>>
    /\ UNCHANGED <<api_key, downloads, tmpfiles, tmpCount, runs, mode, job, an>>

\* requests.get; raise_for_status; open(filename, 'wb'); write the chunks.
\* The request may fail before the file is opened, or the stream may break
\* after it: the file then stays on disk as far as it was written.
DashDownload ==
    /\ pc = "dash_download"
    /\ \/ /\ downloads' = downloads \cup {dash.filename}
          /\ pc' = "dash_construct"
          /\ UNCHANGED <<dash, failure>>
       \/ \E e \in DownloadErrors, partial \in BOOLEAN :
          /\ downloads' = IF partial THEN downloads \cup {dash.filename} ELSE downloads
          /\ dash' = [dash EXCEPT !.exc = Some(e)]
          /\ failure' = "download"
          /\ pc' = "dash_except"
    /\ UNCHANGED <<api_key, tmpfiles, tmpCount, runs, mode, job, an>>

\* analyzer = PodcastAnalyzer()
\* detailed_analysis = analyzer.analyze_audio_detailed(filename)
DashConstruct ==
    /\ pc = "dash_construct"
    /\ IF api_key
       THEN /\ an' = AnEnter("dash", dash.filename)
            /\ pc' = "tr_exists"
            /\ UNCHANGED <<dash, failure>>
       ELSE /\ dash' = [dash EXCEPT !.exc = Some(MsgApiKey)]
            /\ failure' = "config"
            /\ pc' = "dash_except"
            /\ UNCHANGED an
    /\ UNCHANGED <<api_key, downloads, tmpfiles, tmpCount, runs, mode, job>>

\* if detailed_analysis.startswith("Error"): st.error(detailed_analysis);
\* return None.  Otherwise return detailed_analysis.
DashAfterAnalysis ==
    /\ pc = "an_return"
    /\ an.caller = "dash"
    /\ IF StartsWith(an.result[1], <<"E", "r", "r", "o", "r">>)
       THEN dash' = [dash EXCEPT !.shown = Append(@, an.result[1]),
                                 !.returned = TRUE, !.result = None]
       ELSE dash' = [dash EXCEPT !.returned = TRUE, !.result = an.result]
    /\ pc' = "dash_done"
    /\ UNCHANGED <<api_key, downloads, tmpfiles, tmpCount, runs, mode, job, an,
                   failure>>

\* except Exception as e: st.error(f"Error: {str(e)}"); return None
DashExcept ==
    /\ pc = "dash_except"
    /\ dash' = [dash EXCEPT !.shown = Append(@, <<"E", "r", "r", "o", "r", ":", " ">> \o dash.exc[1]),
                            !.returned = TRUE, !.result = None]
    /\ pc' = "dash_done"
    /\ UNCHANGED <<api_key, downloads, tmpfiles, tmpCount, runs, mode, job, an,
                   failure>>

\* the caller has the result; the next call may start
DashFinish ==
    /\ mode = "dash"
    /\ pc = "dash_done"
    /\ mode' = "idle"
    /\ pc' = "idle"
    /\ runs' = runs + 1
    /\ dash' = NoDash
    /\ an' = NoAn
    /\ failure' = "none"
    /\ UNCHANGED <<api_key, downloads, tmpfiles, tmpCount, job>>

\* the environment at process start: the credential is set or not
PipeInit ==
    /\ api_key \in BOOLEAN
    /\ downloads = {StoredAudio}
    /\ tmpfiles = {}
    /\ tmpCount = 0
    /\ runs = 0
    /\ mode = "idle"
    /\ pc = "idle"
    /\ job = NoJob
    /\ dash = NoDash
    /\ an = NoAn
    /\ failure = "none"

InitPipe == PipeInit /\ RepoIdle /\ FileIdle /\ ExtraIdle

NextPipe ==
    \/ JobSubmit /\ UNCHANGED <<repoVars, fileVars, extraVars>>
    \/ JobCheckFile /\ UNCHANGED <<repoVars, fileVars, extraVars>>
    \/ JobConstruct /\ UNCHANGED <<repoVars, fileVars, extraVars>>
    \/ JobReturn /\ UNCHANGED <<repoVars, fileVars, extraVars>>
    \/ JobExcept /\ UNCHANGED <<repoVars, fileVars, extraVars>>
    \/ JobFinish /\ UNCHANGED <<repoVars, fileVars, extraVars>>
    \/ DashStart /\ UNCHANGED <<repoVars, fileVars, extraVars>>
    \/ DashParse /\ UNCHANGED <<repoVars, fileVars, extraVars>>
    \/ DashEnclosure /\ UNCHANGED <<repoVars, fileVars, extraVars>>
    \/ DashDownload /\ UNCHANGED <<repoVars, fileVars, extraVars>>
    \/ DashConstruct /\ UNCHANGED <<repoVars, fileVars, extraVars>>
    \/ DashAfterAnalysis /\ UNCHANGED <<repoVars, fileVars, extraVars>>
    \/ DashExcept /\ UNCHANGED <<repoVars, fileVars, extraVars>>
    \/ DashFinish /\ UNCHANGED <<repoVars, fileVars, extraVars>>
    \/ TrExists /\ UNCHANGED <<repoVars, fileVars, extraVars>>
    \/ TrLoad /\ UNCHANGED <<repoVars, fileVars, extraVars>>
    \/ TrProcess /\ UNCHANGED <<repoVars, fileVars, extraVars>>
    \/ TrMktemp /\ UNCHANGED <<repoVars, fileVars, extraVars>>
    \/ TrExport /\ UNCHANGED <<repoVars, fileVars, extraVars>>
    \/ AnRead /\ UNCHANGED <<repoVars, fileVars, extraVars>>
    \/ AnOracle /\ UNCHANGED <<repoVars, fileVars, extraVars>>
    \/ AnExcept /\ UNCHANGED <<repoVars, fileVars, extraVars>>
    \/ AnFinally /\ UNCHANGED <<repoVars, fileVars, extraVars>>

SpecPipe == InitPipe /\ [][NextPipe]_vars

(***************************************************************************)
(* Claims about the pipeline, checked under SpecPipe.                      *)
(***************************************************************************)
ErrorMarker == <<"E", "r", "r", "o", "r">>

BeginsWithMarker(text) ==
    /\ Len(text) >= 5
    /\ \A i \in 1..5 : text[i] = ErrorMarker[i]

C6_NoTemporaryFileRemains ==
    pc = "an_return" => an.created \cap tmpfiles = {}

\* a failure is visible when the episode is FAILED, an error string is
\* returned (or the task ends with the exception), or an error is shown
FailureVisible ==
    \/ \E i \in 1..Len(episodes) : episodes[i].status = FAILED
    \/ mode = "job" /\ job.state = "SUCCESS" /\ job.result # None
          /\ job.result[1] # <<>>
    \/ mode = "job" /\ job.state = "FAILURE" /\ job.exc # None
    \/ mode = "dash" /\ dash.shown # <<>>

\* C7: every failure while processing an episode (empty feed, no audio
\* enclosure, download error, missing file, transcode error, oracle error)
\* ends with the episode FAILED or with an explicit error string returned or
\* shown to the caller.
C7_EveryFailureVisible ==
    (pc \in {"job_done", "dash_done"} /\ failure # "none") => FailureVisible

\* C8: when the oracle call fails during the analyze_podcast job, the task
\* queue re-executes the whole job, at most 3 times, and after the retries
\* are exhausted the job ends with the last error surfaced.
C8_OracleFailureIsRetried ==
    /\ job.retries <= 3
    /\ (mode = "job" /\ pc = "job_done" /\ an.oracle = "failed") =>
          /\ job.retries = 3
          /\ job.state = "FAILURE"
          /\ job.exc # None

(***************************************************************************)
(* The newsletter composer: generate_cohesive_newsletter in                *)
(* src/podcast_analyzer.py.  A dict is the sequence of its items in        *)
(* insertion order, the keys distinct.                                     *)
(***************************************************************************)
NewsIntro == <<"H", "e", "r", "e", " ", "a", "r", "e", " ", "t", "h", "e", " ", "p", "o", "d", "c", "a", "s", "t", " ", "e", "p", "i", "s", "o", "d", "e", " ", "a", "n", "a", "l", "y", "s", "e", "s", " ", "t", "o", " ", "i", "n", "c", "l", "u", "d", "e", " ", "(", "a", "n", "d", " ", "O", "N", "L", "Y", " ", "t", "h", "e", "s", "e", ")", ":", "\n", "\n">>

\* f"# {podcast_name}\n\n{analysis}\n\n---\n\n"
NewsBlock(podcast_name, analysis) ==
    <<"#", " ">> \o podcast_name \o <<"\n", "\n">> \o analysis
        \o <<"\n", "\n", "-", "-", "-", "\n", "\n">>

\* the loop over podcast_analyses.items(), adding to combined_input so far
RECURSIVE AddBlocks(_, _)
AddBlocks(sofar, items) ==
    IF items = <<>>
    THEN sofar
    ELSE AddBlocks(sofar \o NewsBlock(Head(items).name, Head(items).analysis),
                   Tail(items))

\* the input with the blocks in the reverse of the insertion order
RECURSIVE CombinedInputReversed(_)
CombinedInputReversed(podcast_analyses) ==
    IF podcast_analyses = <<>>
    THEN NewsIntro
    ELSE CombinedInputReversed(Tail(podcast_analyses))
            \o NewsBlock(Head(podcast_analyses).name, Head(podcast_analyses).analysis)

\* combined_input as generate_cohesive_newsletter builds it
CombinedInput(podcast_analyses) ==
    AddBlocks(NewsIntro, podcast_analyses)

\* str(e) of the oracle's exceptions and the texts it answers
NewsErrorText(msg) ==
    <<"E", "r", "r", "o", "r", " ", "g", "e", "n", "e", "r", "a", "t", "i", "n", "g", " ", "n", "e", "w", "s", "l", "e", "t", "t", "e", "r", ":", " ">> \o msg

NewsTexts == {<<"#", " ", "T", "o", "d", "a", "y", "'", "s", " ", "P", "o", "d", "c", "a", "s", "t", " ", "B", "r", "i", "e", "f", "i", "n", "g">>}

\* the mapping is taken and combined_input is built
NewsBuild ==
    /\ news.called
    /\ news.combined_input = None
    /\ news' = [news EXCEPT !.combined_input = Some(CombinedInput(news.podcast_analyses))]
    /\ UNCHANGED <<mainf, workers>>

\* response = self.model.generate_content([NEWSLETTER_PROMPT, combined_input]);
\* return response.text, or the error text when the call raises
NewsOracle ==
    /\ news.combined_input # None
    /\ news.result = None
    /\ \/ \E t \in NewsTexts : news' = [news EXCEPT !.result = Some(t)]
       \/ \E e \in OracleErrors : news' = [news EXCEPT !.result = Some(NewsErrorText(e))]
    /\ UNCHANGED <<mainf, workers>>

(***************************************************************************)
(* Inputs of the composer.                                                 *)
(***************************************************************************)
\* most entries of a mapping given to the composer
MaxPodcasts == 2

ShowNames == {<<"S", "h", "o", "w", " ", "A">>, <<"S", "h", "o", "w", " ", "B">>, <<"S", "h", "o", "w", " ", "C">>}

AnalysisTexts == {<<"T", "L", "D", "R", ":", " ", ".", ".", ".">>, <<"#", " ", "T", "o", "p", "i", "c">>}

\* the mappings of at most n entries: sequences of items with distinct names
Mappings(n) ==
    UNION {{m \in [1..k -> [name : ShowNames, analysis : AnalysisTexts]] :
              \A i, j \in 1..k : i # j => m[i].name # m[j].name} : k \in 0..n}

NewsInit ==
    /\ news \in {[NoNews EXCEPT !.called = TRUE, !.podcast_analyses = m] :
                    m \in Mappings(MaxPodcasts)}
    /\ mainf = NoMain
    /\ workers = <<>>

InitNews == NewsInit /\ RepoIdle /\ FileIdle /\ PipeIdle

NextNews ==
    \/ NewsBuild /\ UNCHANGED <<repoVars, fileVars, pipeVars>>
    \/ NewsOracle /\ UNCHANGED <<repoVars, fileVars, pipeVars>>

SpecNews == InitNews /\ [][NextNews]_vars

(***************************************************************************)
(* Claims about the composer, checked under SpecNews.                      *)
(***************************************************************************)
\* the block the input must hold for item i of the mapping
ExpectedBlock(item) ==
    <<"#", " ">> \o item.name \o <<"\n", "\n">> \o item.analysis
        \o <<"\n", "\n", "-", "-", "-", "\n", "\n">>

\* where the block of item i starts in the input: after the introduction and
\* the blocks of the items before it
RECURSIVE BlockOffset(_, _)
BlockOffset(items, i) ==
    IF i = 1
    THEN Len(NewsIntro)
    ELSE BlockOffset(items, i - 1) + Len(ExpectedBlock(items[i - 1]))

\* C12: the combined input holds one header-plus-analysis block per entry of
\* the mapping, in insertion order, each followed by the separator, and no
\* block for any other podcast name: after the introduction the input is
\* these blocks, one after the other, and nothing else.
C12_InputIsTheBlocksInOrder ==
    news.combined_input # None =>
        LET c == news.combined_input[1]
            items == news.podcast_analyses
            n == Len(items)
        IN  /\ SubSeq(c, 1, Len(NewsIntro)) = NewsIntro
            /\ \A i \in 1..n :
                  SubSeq(c, BlockOffset(items, i) + 1,
                         BlockOffset(items, i) + Len(ExpectedBlock(items[i])))
                    = ExpectedBlock(items[i])
            /\ Len(c) = BlockOffset(items, n + 1)

\* C12 witness: the input has been built for the mapping {"Show B": ..,
\* "Show A": ..}, inserted in that order.
C12_Witness ==
    /\ news.combined_input # None
    /\ Len(news.podcast_analyses) = 2
    /\ news.podcast_analyses[1].name = <<"S", "h", "o", "w", " ", "B">>
    /\ news.podcast_analyses[2].name = <<"S", "h", "o", "w", " ", "A">>
    /\ Len(news.combined_input[1]) > Len(NewsIntro)

(***************************************************************************)
(* The briefing run of main in src/podcast_streamlit.py: one press of the  *)
(* Generate Briefing button.                                               *)
(***************************************************************************)
\* the keys of PODCAST_FEEDS, in the order of the dict
PODCAST_FEEDS == <<<<"T", "h", "e", " ", "E", "z", "r", "a", " ", "K", "l", "e", "i", "n", " ", "S", "h", "o", "w">>, <<"H", "a", "r", "d", " ", "F", "o", "r", "k">>, <<"T", "h", "e", " ", "D", "a", "i", "l", "y">>>>

\* selected_podcasts: one checkbox per key of PODCAST_FEEDS, in its order
Selections == [1..Len(PODCAST_FEEDS) -> BOOLEAN]

\* the texts main shows (their pictographs left out)
MsgSelect == <<"P", "l", "e", "a", "s", "e", " ", "s", "e", "l", "e", "c", "t", " ", "a", "t", " ", "l", "e", "a", "s", "t", " ", "o", "n", "e", " ", "p", "o", "d", "c", "a", "s", "t", ".">>
MsgNoAnalysis == <<"F", "a", "i", "l", "e", "d", " ", "t", "o", " ", "a", "n", "a", "l", "y", "z", "e", " ", "e", "p", "i", "s", "o", "d", "e", "s", ".", " ", "P", "l", "e", "a", "s", "e", " ", "t", "r", "y", " ", "a", "g", "a", "i", "n", ".">>
MsgNoNewsletter == <<"F", "a", "i", "l", "e", "d", " ", "t", "o", " ", "g", "e", "n", "e", "r", "a", "t", "e", " ", "n", "e", "w", "s", "l", "e", "t", "t", "e", "r", ".", " ", "P", "l", "e", "a", "s", "e", " ", "t", "r", "y", " ", "a", "g", "a", "i", "n", ".">>

\* if analysis: the truth value of what download_and_analyze_episode returned
Truthy(analysis) ==
    analysis # None /\ analysis[1] # <<>>

\* if generate_button: if not any(selected_podcasts.values()): st.warning; return
MainStart ==
    /\ mode = "idle"
    /\ pc = "idle"
    /\ \E sel \in Selections :
          IF \A i \in 1..Len(sel) : ~sel[i]
          THEN /\ mainf' = [NoMain EXCEPT !.selected_podcasts = sel,
                                          !.shown = <<MsgSelect>>]
               /\ pc' = "main_done"
          ELSE /\ mainf' = [NoMain EXCEPT !.selected_podcasts = sel, !.idx = 1]
               /\ pc' = "main_loop"
    /\ mode' = "main"
    /\ UNCHANGED <<api_key, downloads, tmpfiles, tmpCount, runs, job, dash, an,
                   failure, news, workers>>

\* for podcast_name, is_selected in selected_podcasts.items(): if is_selected:
\* analysis = download_and_analyze_episode(PODCAST_FEEDS[podcast_name])
MainNext ==
    /\ pc = "main_loop"
    /\ IF mainf.idx > Len(mainf.selected_podcasts)
       THEN /\ pc' = "main_after"
            /\ UNCHANGED <<mainf, dash, failure>>
       ELSE IF ~mainf.selected_podcasts[mainf.idx]
       THEN /\ mainf' = [mainf EXCEPT !.idx = @ + 1]
            /\ UNCHANGED <<pc, dash, failure>>
       ELSE /\ \E f \in FeedsOf(PODCAST_FEEDS[mainf.idx]) :
                  dash' = [NoDash EXCEPT !.feed = f]
            /\ pc' = "dash_parse"
            /\ failure' = "none"
            /\ UNCHANGED mainf
    /\ UNCHANGED <<api_key, downloads, tmpfiles, tmpCount, runs, mode, job, an,
                   news, workers>>

\* if analysis: detailed_analyses[podcast_name] = analysis.
\* succeeded keeps, for the claims, the podcasts whose oracle call answered
\* (download and transcoding came before it), with the text it answered.
MainCollect ==
    /\ mode = "main"
    /\ pc = "dash_done"
    /\ LET podcast_name == PODCAST_FEEDS[mainf.idx]
           analysis == dash.result
       IN  mainf' = [mainf EXCEPT
                !.detailed_analyses =
                    IF Truthy(analysis)
                    THEN Append(@, [name |-> podcast_name, analysis |-> analysis[1]])
                    ELSE @,
                !.succeeded =
                    IF an.oracle = "ok"
                    THEN Append(@, [name |-> podcast_name, analysis |-> an.result[1]])
                    ELSE @,
                !.shown = @ \o dash.shown,
                !.idx = @ + 1]
    /\ dash' = NoDash
    /\ an' = NoAn
    /\ failure' = "none"
    /\ pc' = "main_loop"
    /\ UNCHANGED <<api_key, downloads, tmpfiles, tmpCount, runs, mode, job, news,
                   workers>>

\* if detailed_analyses: analyzer = PodcastAnalyzer();
\* newsletter = analyzer.generate_cohesive_newsletter(detailed_analyses)
\* else: st.error("Failed to analyze episodes. Please try again.")
\* PodcastAnalyzer() raises without the credential, outside any try: the run
\* ends with the exception.
MainCompose ==
    /\ pc = "main_after"
    /\ IF mainf.detailed_analyses = <<>>
       THEN /\ mainf' = [mainf EXCEPT !.shown = Append(@, MsgNoAnalysis)]
            /\ pc' = "main_done"
            /\ UNCHANGED news
       ELSE IF api_key
       THEN /\ news' = [NoNews EXCEPT !.called = TRUE,
                                      !.podcast_analyses = mainf.detailed_analyses]
            /\ pc' = "main_news"
            /\ UNCHANGED mainf
       ELSE /\ mainf' = [mainf EXCEPT !.shown = Append(@, MsgApiKey)]
            /\ pc' = "main_done"
            /\ UNCHANGED news
    /\ UNCHANGED <<api_key, downloads, tmpfiles, tmpCount, runs, mode, job, dash,
                   an, failure, workers>>

\* if newsletter.startswith("Error"): st.error("Failed to generate
\* newsletter. Please try again."); return.  Otherwise st.markdown(newsletter).
MainShow ==
    /\ pc = "main_news"
    /\ news.result # None
    /\ mainf' = [mainf EXCEPT !.shown =
                    IF StartsWith(news.result[1], <<"E", "r", "r", "o", "r">>)
                    THEN Append(@, MsgNoNewsletter)
                    ELSE Append(@, news.result[1])]
    /\ pc' = "main_done"
    /\ UNCHANGED <<api_key, downloads, tmpfiles, tmpCount, runs, mode, job, dash,
                   an, failure, news, workers>>

InitMain == PipeInit /\ RepoIdle /\ FileIdle /\ ExtraIdle

NextMain ==
    \/ MainStart /\ UNCHANGED <<repoVars, fileVars>>
    \/ MainNext /\ UNCHANGED <<repoVars, fileVars>>
    \/ MainCollect /\ UNCHANGED <<repoVars, fileVars>>
    \/ MainCompose /\ UNCHANGED <<repoVars, fileVars>>
    \/ MainShow /\ UNCHANGED <<repoVars, fileVars>>
    \/ NewsBuild /\ UNCHANGED <<repoVars, fileVars, pipeVars>>
    \/ NewsOracle /\ UNCHANGED <<repoVars, fileVars, pipeVars>>
    \/ DashParse /\ UNCHANGED <<repoVars, fileVars, extraVars>>
    \/ DashEnclosure /\ UNCHANGED <<repoVars, fileVars, extraVars>>
    \/ DashDownload /\ UNCHANGED <<repoVars, fileVars, extraVars>>
    \/ DashConstruct /\ UNCHANGED <<repoVars, fileVars, extraVars>>
    \/ DashAfterAnalysis /\ UNCHANGED <<repoVars, fileVars, extraVars>>
    \/ DashExcept /\ UNCHANGED <<repoVars, fileVars, extraVars>>
    \/ TrExists /\ UNCHANGED <<repoVars, fileVars, extraVars>>
    \/ TrLoad /\ UNCHANGED <<repoVars, fileVars, extraVars>>
    \/ TrProcess /\ UNCHANGED <<repoVars, fileVars, extraVars>>
    \/ TrMktemp /\ UNCHANGED <<repoVars, fileVars, extraVars>>
    \/ TrExport /\ UNCHANGED <<repoVars, fileVars, extraVars>>
    \/ AnRead /\ UNCHANGED <<repoVars, fileVars, extraVars>>
    \/ AnOracle /\ UNCHANGED <<repoVars, fileVars, extraVars>>
    \/ AnExcept /\ UNCHANGED <<repoVars, fileVars, extraVars>>
    \/ AnFinally /\ UNCHANGED <<repoVars, fileVars, extraVars>>

SpecMain == InitMain /\ [][NextMain]_vars

(***************************************************************************)
(* Claims about the briefing run, checked under SpecMain.                  *)
(***************************************************************************)
\* C13: in one briefing run the mapping handed to the composer holds exactly
\* the selected podcasts whose episode analysis succeeded, in selection
\* order, each with its own analysis whatever happened to the others, and
\* the composer is invoked whenever at least one analysis succeeded.
C13_ComposerGetsTheSucceeded ==
    /\ (mode = "main" /\ news.called) =>
          news.podcast_analyses = mainf.succeeded
    /\ (mode = "main" /\ pc = "main_done" /\ mainf.succeeded # <<>>) =>
          news.called

\* C15: whenever download, transcoding and the oracle call all succeed for an
\* episode, download_and_analyze_episode returns the oracle's text unchanged
\* and that text is in the briefing input, whatever the text is; a call is
\* classified as failed (None, or a value that is not true) exactly when no
\* oracle call succeeded in it.
C15_OracleTextReachesBriefing ==
    /\ (pc = "dash_done" /\ an.oracle = "ok") => dash.result = an.result
    /\ pc = "dash_done" => (Truthy(dash.result) <=> an.oracle = "ok")
    /\ \A i \in 1..Len(mainf.succeeded) :
          \E j \in 1..Len(mainf.detailed_analyses) :
              mainf.detailed_analyses[j] = mainf.succeeded[i]

(***************************************************************************)
(* Two workers inside create_analysis of src/src/db/crud.py on the same    *)
(* episode, each with its own session.  A step is one commit or one read   *)
(* of the store; the steps of the two workers interleave in any order.     *)
(***************************************************************************)
\* the episode both workers write to
SharedEpisode == 1

\* the frame of a worker entering create_analysis(db, episode_id, result_text,
\* analysis_type)
Worker(analysis_type) ==
    [pc |-> "insert", episode_id |-> SharedEpisode, result_text |-> "TLDR",
     analysis_type |-> analysis_type, analysis |-> None, analyses |-> <<>>,
     episode |-> None]

\* db.add(analysis); db.commit()
WorkerInsert(w) ==
    /\ workers[w].pc = "insert"
    /\ analyses' = Append(analyses,
            Analysis(Len(analyses) + 1, workers[w].episode_id,
                     workers[w].result_text, workers[w].analysis_type, clock))
    /\ clock' = clock + 1
    /\ workers' = [workers EXCEPT ![w].pc = "refresh"]
    /\ UNCHANGED <<episodes, call, ret, news, mainf>>

\* db.refresh(analysis): the row is read back
WorkerRefresh(w) ==
    /\ workers[w].pc = "refresh"
    /\ \E i \in 1..Len(analyses) :
          /\ analyses[i].episode_id = workers[w].episode_id
          /\ analyses[i].analysis_type = workers[w].analysis_type
          /\ workers' = [workers EXCEPT ![w].analysis = Some(analyses[i]),
                                        ![w].pc = "reread"]
    /\ UNCHANGED <<episodes, analyses, clock, call, ret, news, mainf>>

\* analyses = get_episode_analyses(db, episode_id);
\* if len(set(a.analysis_type for a in analyses)) == len(models.AnalysisType):
WorkerReRead(w) ==
    /\ workers[w].pc = "reread"
    /\ LET rows == get_episode_analyses(analyses, workers[w].episode_id)
       IN  workers' = [workers EXCEPT
                ![w].analyses = rows,
                ![w].pc = IF AllKindsPresent(rows) THEN "load" ELSE "return"]
    /\ UNCHANGED <<episodes, analyses, clock, call, ret, news, mainf>>

\* update_episode_status: episode = get_episode(db, episode_id); if episode:
WorkerLoad(w) ==
    /\ workers[w].pc = "load"
    /\ LET episode == get_episode(episodes, workers[w].episode_id)
       IN  workers' = [workers EXCEPT
                ![w].episode = episode,
                ![w].pc = IF episode # None THEN "commit" ELSE "return"]
    /\ UNCHANGED <<episodes, analyses, clock, call, ret, news, mainf>>

\* episode.status = status; db.commit(); db.refresh(episode).  The session
\* emits UPDATE episodes SET status, updated_at WHERE id only when the value
\* set differs from the one it loaded; the UPDATE writes these two columns
\* of the stored row.
WorkerCommitStatus(w) ==
    /\ workers[w].pc = "commit"
    /\ LET loaded == workers[w].episode[1]
           id == workers[w].episode_id
       IN  IF UpdateRow(loaded, "status", COMPLETED, clock) = loaded
           THEN UNCHANGED <<episodes, clock>>
           ELSE /\ episodes' = [episodes EXCEPT ![id] =
                        [@ EXCEPT !.status = COMPLETED, !.updated_at = Some(clock)]]
                /\ clock' = clock + 1
    /\ workers' = [workers EXCEPT ![w].episode = get_episode(episodes', workers[w].episode_id),
                                  ![w].pc = "return"]
    /\ UNCHANGED <<analyses, call, ret, news, mainf>>

\* return analysis
WorkerReturn(w) ==
    /\ workers[w].pc = "return"
    /\ workers' = [workers EXCEPT ![w].pc = "returned"]
    /\ UNCHANGED <<episodes, analyses, clock, call, ret, news, mainf>>

\* the store holds the episode in any status, written once if not PENDING;
\* one worker is about to store the BRIEF analysis, the other the LEAD one
ConcInit ==
    /\ \E s \in ProcessingStatus :
          /\ episodes = <<IF s = PENDING
                          THEN Episode(1, "https://feeds.simplecast.com/82FI35Px",
                                       "Hard Fork", "t1", 0)
                          ELSE UpdateRow(Episode(1, "https://feeds.simplecast.com/82FI35Px",
                                                 "Hard Fork", "t1", 0),
                                         "status", s, 1)>>
          /\ clock = IF s = PENDING THEN 1 ELSE 2
    /\ analyses = <<>>
    /\ call = [op |-> "none"]
    /\ ret = Returned(None)
    /\ news = NoNews
    /\ mainf = NoMain
    /\ workers = <<Worker(BRIEF), Worker(LEAD)>>

InitConc == ConcInit /\ FileIdle /\ PipeIdle

NextConc ==
    \/ \E w \in DOMAIN workers : WorkerInsert(w) /\ UNCHANGED <<fileVars, pipeVars>>
    \/ \E w \in DOMAIN workers : WorkerRefresh(w) /\ UNCHANGED <<fileVars, pipeVars>>
    \/ \E w \in DOMAIN workers : WorkerReRead(w) /\ UNCHANGED <<fileVars, pipeVars>>
    \/ \E w \in DOMAIN workers : WorkerLoad(w) /\ UNCHANGED <<fileVars, pipeVars>>
    \/ \E w \in DOMAIN workers : WorkerCommitStatus(w) /\ UNCHANGED <<fileVars, pipeVars>>
    \/ \E w \in DOMAIN workers : WorkerReturn(w) /\ UNCHANGED <<fileVars, pipeVars>>

SpecConc == InitConc /\ [][NextConc]_vars

(***************************************************************************)
(* Claims about the concurrent workers, checked under SpecConc.            *)
(***************************************************************************)
BothReturned ==
    /\ workers # <<>>
    /\ \A w \in DOMAIN workers : workers[w].pc = "returned"

\* C14: when two workers call create_analysis on the same episode, one with
\* BRIEF and one with LEAD, their commits and reads interleaved in any order,
\* then once both calls have returned both kinds are stored and the episode's
\* status is COMPLETED.
C14_BothReturnedThenCompleted ==
    BothReturned =>
        /\ KindsOf(get_episode_analyses(analyses, SharedEpisode)) = AnalysisType
        /\ episodes[SharedEpisode].status = COMPLETED

\* C14 witness: both calls have returned; the BRIEF worker re-read before the
\* LEAD analysis was committed and saw its own kind only, and the LEAD worker
\* loaded the episode while it was ANALYZING and committed COMPLETED.
C14_Witness ==
    /\ BothReturned
    /\ KindsOf(workers[1].analyses) = {BRIEF}
    /\ workers[1].episode = None
    /\ KindsOf(workers[2].analyses) = AnalysisType
    /\ episodes[SharedEpisode].status = COMPLETED
    /\ episodes[SharedEpisode].updated_at = Some(clock - 1)

====
